---- MODULE Spec2Model ----
(***************************************************************************)
(* A model of the DataView-based Plan class of FFTWpp                      *)
(* (src/FFTWpp/src/Plan.h), of the DataLayout / DataView comparisons it    *)
(* relies on (src/FFTWpp/src/Views.h) and of the wisdom helpers            *)
(* (src/FFTWpp/src/Wisdom.h, src/FFTWpp/src/Plan.h).                       *)
(*                                                                         *)
(* The transform engine (fftw3) is external.  It is modelled by what the   *)
(* wrapper can observe of it: build-plan returns a fresh non-null handle   *)
(* or, under WisdomOnly without stored wisdom for the problem, null;       *)
(* release-plan and run-plan are logged.  An assert that fails ends the    *)
(* program (aborted = TRUE): nothing happens afterwards.                   *)
(*                                                                         *)
(* SpecPrecision runs the wisdom helpers with Plans of each of the three   *)
(* precisions; SpecIter is the lifecycle of the older iterator-based Plan  *)
(* (src/src/Plan.h).                                                       *)
(*                                                                         *)
(* Functions that do not depend on the Plan lifecycle (DataLayout and      *)
(* DataView construction, StorageSize, Transformable, the real-to-real     *)
(* kind tables of src/FFTWpp/src/Options.h and src/FFTWpp/src/Flags.h,     *)
(* Normalisation, ExportWisdom / ImportWisdom, the arguments the Plan      *)
(* constructors and wrappers hand to the engine) are run one call per      *)
(* behaviour in SpecCalls.                                                 *)
(***************************************************************************)
EXTENDS Integers, Sequences, FiniteSets, TLC

VARIABLES
    tkind,      \* transform kind of the Plan<InputView, OutputView> instantiation
    precision,  \* floating-point precision of that instantiation
    plans,      \* the Plan objects of the program, by name
    nextHandle, \* engine: number of non-null handles handed out so far
    released,   \* engine: the handles release-plan was called on
    nullRel,    \* engine: release-plan was called with a null handle
    dblRel,     \* engine: release-plan was called on a released handle
    wisdom,     \* engine: the problems, precision included, with stored wisdom
    aborted,    \* an assertion failed (contract violation): program ended
    last,       \* what the most recent operation did (observation only)
    call,       \* a call of a function outside the Plan lifecycle: name, arguments
    ret         \* what that call returned, once it has run

vars == <<tkind, precision, plans, nextHandle, released, nullRel, dblRel,
          wisdom, aborted, last, call, ret>>

----------------------------------------------------------------------------
(* Bounds *)

\* Engine build calls that return a handle, per behaviour.
MaxBuilds == 3

Handles == 1..MaxBuilds
NullHandle == 0

\* The Plan objects of the program: two are enough for every binary
\* operation (copy, move, assignment) and for self-assignment.
PlanIds == {"p", "q"}

TKinds == {"C2C", "R2C", "C2R", "R2R"}
Flags == {"Estimate", "Patient", "WisdomOnly"}
DirFwd == "Forward"
DirBwd == "Backward"

\* The precisions a Plan can be instantiated at: float, double, long double
\* (IsSingle, IsDouble, IsLongDouble).  Each has its own engine library
\* (fftwf_, fftw_, fftwl_) with its own wisdom.
Precisions == {"single", "double", "extended"}

----------------------------------------------------------------------------
(* Layouts (DataLayout, Views.h 129-196) *)

MkLayout(rank, n, howMany, embed, stride, dist) ==
    [rank |-> rank, n |-> n, howMany |-> howMany, embed |-> embed,
     stride |-> stride, dist |-> dist]

NoLayout == MkLayout(0, <<>>, 0, <<>>, 0, 0)

L4  == MkLayout(1, <<4>>, 1, <<4>>, 1, 4)
L3  == MkLayout(1, <<3>>, 1, <<3>>, 1, 3)
L5  == MkLayout(1, <<5>>, 1, <<5>>, 1, 5)
L4m == MkLayout(1, <<4>>, 2, <<4>>, 1, 4)
L4e == MkLayout(1, <<4>>, 1, <<6>>, 1, 6)
L4s == MkLayout(1, <<4>>, 1, <<4>>, 2, 8)
L24 == MkLayout(2, <<2, 4>>, 1, <<2, 4>>, 1, 8)
L23 == MkLayout(2, <<2, 3>>, 1, <<2, 3>>, 1, 6)
L34 == MkLayout(2, <<3, 4>>, 1, <<3, 4>>, 1, 12)

\* Layouts used by the view-compatibility specification.
AllLayouts == {L4, L3, L5, L4m, L4e, L4s, L24, L23, L34}

\* The (input, output) views a caller passes in the lifecycle specification:
\* two pairs the kind accepts, one with unequal n, one with unequal howMany.
LifePairs(tk) ==
    CASE tk = "R2C" -> {<<L4, L3>>, <<L5, L3>>, <<L4, L4>>, <<L4m, L3>>}
      [] tk = "C2R" -> {<<L3, L4>>, <<L3, L5>>, <<L4, L4>>, <<L3, L4m>>}
      [] OTHER -> {<<L4, L4>>, <<L3, L3>>, <<L4, L3>>, <<L4, L4m>>}

----------------------------------------------------------------------------
(* Range helpers: std::views::reverse, take(1), drop(1), ranges::equal *)

Reverse(s) == [i \in 1..Len(s) |-> s[Len(s) + 1 - i]]
Take1(s) == IF Len(s) = 0 THEN <<>> ELSE <<s[1]>>
Drop1(s) == IF Len(s) = 0 THEN <<>> ELSE Tail(s)

\* std::ranges::equal(a, b, pred) with pred(x, y) == (x = y \div 2 + 1)
EqualHalfRight(a, b) ==
    /\ Len(a) = Len(b)
    /\ \A i \in 1..Len(a) : a[i] = (b[i] \div 2) + 1

\* The same comparison with the half rounded up.
EqualHalfLeftCeil(a, b) ==
    /\ Len(a) = Len(b)
    /\ \A i \in 1..Len(a) : ((a[i] + 1) \div 2) + 1 = b[i]

\* std::ranges::equal(a, b, pred) with pred(x, y) == (x \div 2 + 1 = y)
EqualHalfLeft(a, b) ==
    /\ Len(a) = Len(b)
    /\ \A i \in 1..Len(a) : (a[i] \div 2) + 1 = b[i]

\* DataLayout::EqualStorage (Views.h 174-180)
EqualStorage(a, b) ==
    IF a.rank # b.rank THEN FALSE
    ELSE IF a.howMany # b.howMany THEN FALSE
    ELSE IF a.n # b.n THEN FALSE
    ELSE IF a.embed # b.embed THEN FALSE
    ELSE TRUE

\* The same check without its howMany comparison.
TransformableNoHowMany(tk, a, b) ==
    IF a.rank # b.rank THEN FALSE
    ELSE CASE tk \in {"C2C", "R2R"} -> a.n = b.n
           [] tk = "C2R" -> /\ EqualHalfRight(Take1(Reverse(a.n)), Take1(Reverse(b.n)))
                            /\ Drop1(Reverse(a.n)) = Drop1(Reverse(b.n))
           [] tk = "R2C" -> /\ EqualHalfLeft(Take1(Reverse(a.n)), Take1(Reverse(b.n)))
                            /\ Drop1(Reverse(a.n)) = Drop1(Reverse(b.n))

\* DataView::Transformable (Views.h 288-316): a is *this, b is other.
Transformable(tk, a, b) ==
    IF a.rank # b.rank THEN FALSE
    ELSE IF a.howMany # b.howMany THEN FALSE
    ELSE CASE tk \in {"C2C", "R2R"} -> a.n = b.n
           [] tk = "C2R" -> /\ EqualHalfRight(Take1(Reverse(a.n)), Take1(Reverse(b.n)))
                            /\ Drop1(Reverse(a.n)) = Drop1(Reverse(b.n))
           [] tk = "R2C" -> /\ EqualHalfLeft(Take1(Reverse(a.n)), Take1(Reverse(b.n)))
                            /\ Drop1(Reverse(a.n)) = Drop1(Reverse(b.n))

----------------------------------------------------------------------------
(* Kinds (Flags.h 58-148): the engine code of a kind for a direction *)

KindCode(kind, dir) ==
    CASE kind = "HC"     -> IF dir = DirFwd THEN "R2HC" ELSE "HC2R"
      [] kind = "DHT"    -> "DHT"
      [] kind = "DCTI"   -> "REDFT00"
      [] kind = "DCTII"  -> IF dir = DirFwd THEN "REDFT10" ELSE "REDFT01"
      [] kind = "DCTIII" -> IF dir = DirFwd THEN "REDFT01" ELSE "REDFT10"
      [] kind = "DCTIV"  -> "REDFT11"
      [] kind = "DSTI"   -> "RODFT00"
      [] kind = "DSTII"  -> IF dir = DirFwd THEN "RODFT10" ELSE "RODFT01"
      [] kind = "DSTIII" -> IF dir = DirFwd THEN "RODFT01" ELSE "RODFT10"
      [] kind = "DSTIV"  -> "RODFT11"
      [] OTHER -> "R2HC"

\* The kind vectors a caller passes to the R2R constructor.
KindVectors == {<<"HC">>, <<"HC", "HC">>}

----------------------------------------------------------------------------
(* The engine, as the wrapper sees it *)

\* The engine's state as one value, so that the steps of one member
\* function can be composed.
Eng ==
    [nh |-> nextHandle, rel |-> released, nullRel |-> nullRel,
     dblRel |-> dblRel, w |-> wisdom]

SetEng(e) ==
    /\ nextHandle' = e.nh
    /\ released' = e.rel
    /\ nullRel' = e.nullRel
    /\ dblRel' = e.dblRel
    /\ wisdom' = e.w

\* After abort() the process is gone: no objects, no handles, no wisdom.
\* What the engine log had seen of bad releases is kept.
Gone(e) ==
    [nh |-> 0, rel |-> {}, nullRel |-> e.nullRel, dblRel |-> e.dblRel, w |-> {}]

\* The arguments MakePlan hands to fftw_plan_many_dft / _dft_c2r / _dft_r2c /
\* _r2r (Plan.h 415-418, 442-445, 469-472, 496-504), flag apart, and the
\* precision of the engine library the call goes to.
EngineArgs(tk, pl) ==
    [tk |-> tk,
     prec |-> precision,
     rank |-> pl.in.rank,
     n |-> IF tk = "C2R" THEN pl.out.n ELSE pl.in.n,
     howMany |-> pl.in.howMany,
     inEmbed |-> pl.in.embed, inStride |-> pl.in.stride, inDist |-> pl.in.dist,
     outEmbed |-> pl.out.embed, outStride |-> pl.out.stride, outDist |-> pl.out.dist,
     sign |-> IF tk = "C2C" THEN pl.dir ELSE "none",
     kinds |-> IF tk = "R2R"
               THEN [i \in 1..Len(pl.kinds) |-> KindCode(pl.kinds[i], pl.dir)]
               ELSE <<>>]

\* build-plan: a planning flag that measures records wisdom for the problem;
\* WisdomOnly creates the plan only if wisdom is available for the problem
\* and returns null otherwise (Options.h 136-152); Estimate measures nothing.
EngineBuild(e, args, flag) ==
    CASE flag = "WisdomOnly" ->
            IF args \in e.w
            THEN [h |-> e.nh + 1, eng |-> [e EXCEPT !.nh = e.nh + 1]]
            ELSE [h |-> NullHandle, eng |-> e]
      [] flag = "Estimate" ->
            [h |-> e.nh + 1, eng |-> [e EXCEPT !.nh = e.nh + 1]]
      [] OTHER ->
            [h |-> e.nh + 1,
             eng |-> [e EXCEPT !.nh = e.nh + 1, !.w = e.w \cup {args}]]

\* release-plan (fftw_destroy_plan, called at Plan.h 389, 396, 403), logged.
EngineRelease(e, h) ==
    IF h = NullHandle THEN [e EXCEPT !.nullRel = TRUE]
    ELSE IF h \in e.rel THEN [e EXCEPT !.dblRel = TRUE]
    ELSE [e EXCEPT !.rel = e.rel \cup {h}]

----------------------------------------------------------------------------
(* Plan objects *)

DeadPlan ==
    [alive |-> FALSE, in |-> NoLayout, out |-> NoLayout, flag |-> "Estimate",
     dir |-> DirFwd, kinds |-> <<>>, plan |-> NullHandle, moved |-> FALSE]

\* Plan::IsNull (Plan.h 259)
IsNull(pl) == pl.plan = NullHandle

\* Destroy that releases the handle but leaves it stored.
DestroyKeepsHandle(pl, e) ==
    IF pl.plan # NullHandle
    THEN [pl |-> pl, eng |-> EngineRelease(e, pl.plan)]
    ELSE [pl |-> pl, eng |-> e]

\* Plan::Destroy (Plan.h 385-407)
Destroy(pl, e) ==
    IF pl.plan # NullHandle
    THEN [pl |-> [pl EXCEPT !.plan = NullHandle], eng |-> EngineRelease(e, pl.plan)]
    ELSE [pl |-> pl, eng |-> e]

\* Plan::MakePlan (Plan.h 410-520).  A moved-from Plan holds views whose
\* layout vectors are null pointers: Transformable dereferences them, which
\* ends the program.
MakePlan(tk, pl, e) ==
    IF \/ pl.moved
       \/ ~Transformable(tk, pl.in, pl.out)
       \/ (tk = "R2R" /\ Len(pl.kinds) # pl.in.rank)
    THEN [abort |-> TRUE, called |-> FALSE, h |-> NullHandle, eng |-> e,
          hadW |-> FALSE]
    ELSE LET args == EngineArgs(tk, pl)
             b == EngineBuild(e, args, pl.flag)
         IN [abort |-> FALSE, called |-> TRUE, h |-> b.h, eng |-> b.eng,
             hadW |-> args \in e.w]

\* A constructor body without assert(!IsNull()).
CtorNeverChecks(tk) == FALSE

\* Whether the constructor body asserts !IsNull(): the C2C / C2R / R2C
\* constructor does (Plan.h 183), the R2R constructor does not (Plan.h 195).
CtorChecksNonNull(tk) == tk # "R2R"

\* What a moved-from Plan is left with: its views' layout vectors and its
\* kinds pointer are null.  Flag and direction are plain values that stay
\* as they were; nothing reads them before an assignment overwrites them,
\* so they are not kept apart here.
MovedFrom(pl) ==
    [pl EXCEPT !.in = NoLayout, !.out = NoLayout, !.kinds = <<>>,
               !.flag = "Estimate", !.dir = DirFwd, !.moved = TRUE]

\* Direction arguments a caller passes: both for C2C, the default (Forward)
\* for the other kinds.
Dirs(tk) == IF tk = "C2C" THEN {DirFwd, DirBwd} ELSE {DirFwd}
\* Kind vectors a caller passes (none outside R2R).
Kinds(tk) == IF tk = "R2R" THEN KindVectors ELSE {<<>>}

LastNone ==
    [op |-> "none", dst |-> "none", src |-> "none", calls |-> 0,
     srcH |-> NullHandle, dstH |-> NullHandle, dstMoved |-> FALSE,
     engNull |-> FALSE, hadW |-> FALSE, flag |-> "Estimate",
     bin |-> NoLayout, bout |-> NoLayout,
     ran |-> FALSE, rh |-> NullHandle, nin |-> NoLayout, nout |-> NoLayout]

\* The record of an operation that reached MakePlan with result m for plan pl.
BuildLast(op, dst, src, pl, m) ==
    [LastNone EXCEPT !.op = op, !.dst = dst, !.src = src,
        !.calls = IF m.called THEN 1 ELSE 0,
        !.engNull = m.called /\ m.h = NullHandle,
        !.hadW = m.hadW, !.flag = pl.flag,
        !.bin = pl.in, !.bout = pl.out]

NewPlan(in, out, flag, dir, kinds) ==
    [alive |-> TRUE, in |-> in, out |-> out, flag |-> flag, dir |-> dir,
     kinds |-> kinds, plan |-> NullHandle, moved |-> FALSE]

NoPlans == [p \in PlanIds |-> DeadPlan]

\* No call outside the Plan lifecycle is being made.
NoCall == [fn |-> "none"]
NotRun == [done |-> FALSE]

----------------------------------------------------------------------------
(* Operations *)

Init ==
    /\ tkind \in TKinds
    /\ precision = "double"
    /\ plans = NoPlans
    /\ nextHandle = 0
    /\ released = {}
    /\ nullRel = FALSE
    /\ dblRel = FALSE
    /\ wisdom = {}
    /\ aborted = FALSE
    /\ last = LastNone
    /\ call = NoCall
    /\ ret = NotRun

\* Plan(in, out, flag, direction) and Plan(in, out, flag, kinds, direction)
\* (Plan.h 173-195)
Construct(p, in, out, flag, dir, kinds) ==
    /\ ~aborted /\ ~plans[p].alive /\ nextHandle < MaxBuilds
    /\ LET pl == NewPlan(in, out, flag, dir, kinds)
           m == MakePlan(tkind, pl, Eng)
           fail == m.abort \/ (CtorChecksNonNull(tkind) /\ m.h = NullHandle)
       IN /\ aborted' = fail
          /\ SetEng(IF fail THEN Gone(m.eng) ELSE m.eng)
          /\ plans' = IF fail THEN NoPlans
                      ELSE [plans EXCEPT ![p] = [pl EXCEPT !.plan = m.h]]
          /\ last' = BuildLast("Construct", p, "none", pl, m)
    /\ UNCHANGED <<tkind, precision, call, ret>>

\* ~Plan() (Plan.h 243)
Destruct(p) ==
    /\ ~aborted /\ plans[p].alive
    /\ LET d == Destroy(plans[p], Eng)
       IN /\ SetEng(d.eng)
          /\ plans' = [plans EXCEPT ![p] = DeadPlan]
          /\ last' = [LastNone EXCEPT !.op = "Destruct", !.dst = p,
                         !.dstH = plans[p].plan]
    /\ UNCHANGED <<tkind, precision, aborted, call, ret>>

\* Plan(Plan const& other) (Plan.h 198-204)
CopyConstruct(p, q) ==
    /\ ~aborted /\ ~plans[p].alive /\ plans[q].alive /\ nextHandle < MaxBuilds
    /\ LET pl == [plans[q] EXCEPT !.plan = NullHandle]
           m == MakePlan(tkind, pl, Eng)
       IN /\ aborted' = m.abort
          /\ SetEng(IF m.abort THEN Gone(m.eng) ELSE m.eng)
          /\ plans' = IF m.abort THEN NoPlans
                      ELSE [plans EXCEPT ![p] = [pl EXCEPT !.plan = m.h]]
          /\ last' = [BuildLast("CopyConstruct", p, q, pl, m) EXCEPT
                         !.srcH = plans[q].plan]
    /\ UNCHANGED <<tkind, precision, call, ret>>

\* Plan(Plan&& other) (Plan.h 207-215): the members are moved out of other,
\* MakePlan() builds the new handle, then other.Destroy().
MoveConstruct(p, q) ==
    /\ ~aborted /\ ~plans[p].alive /\ plans[q].alive /\ nextHandle < MaxBuilds
    /\ LET pl == [plans[q] EXCEPT !.plan = NullHandle]
           m == MakePlan(tkind, pl, Eng)
           d == Destroy(MovedFrom(plans[q]), m.eng)
       IN /\ aborted' = m.abort
          /\ SetEng(IF m.abort THEN Gone(m.eng) ELSE d.eng)
          /\ plans' = IF m.abort THEN NoPlans
                      ELSE [plans EXCEPT ![p] = [pl EXCEPT !.plan = m.h],
                                         ![q] = d.pl]
          /\ last' = [BuildLast("MoveConstruct", p, q, pl, m) EXCEPT
                         !.srcH = plans[q].plan]
    /\ UNCHANGED <<tkind, precision, call, ret>>

\* Plan& operator=(Plan const& other) (Plan.h 218-227); p = q allowed.
CopyAssign(p, q) ==
    /\ ~aborted /\ plans[p].alive /\ plans[q].alive /\ nextHandle < MaxBuilds
    /\ LET d == Destroy(plans[p], Eng)
           other == IF p = q THEN d.pl ELSE plans[q]
           pl == [d.pl EXCEPT !.in = other.in, !.out = other.out,
                              !.flag = other.flag, !.dir = other.dir,
                              !.kinds = other.kinds, !.moved = other.moved]
           m == MakePlan(tkind, pl, d.eng)
       IN /\ aborted' = m.abort
          /\ SetEng(IF m.abort THEN Gone(m.eng) ELSE m.eng)
          /\ plans' = IF m.abort THEN NoPlans
                      ELSE [plans EXCEPT ![p] = [pl EXCEPT !.plan = m.h]]
          /\ last' = [BuildLast("CopyAssign", p, q, pl, m) EXCEPT
                         !.srcH = plans[q].plan, !.dstH = plans[p].plan,
                         !.dstMoved = plans[p].moved]
    /\ UNCHANGED <<tkind, precision, call, ret>>

\* A move assignment that leaves the source's handle alone.
MoveAssignSourceUntouched(other, e) == [pl |-> other, eng |-> e]

\* other.Destroy() in the move assignment (Plan.h 232)
MoveAssignSource(other, e) == Destroy(other, e)

\* Plan& operator=(Plan&& other) (Plan.h 230-240); p = std::move(p) allowed:
\* a shared_ptr moved onto itself keeps its value, so do the other members.
MoveAssign(p, q) ==
    /\ ~aborted /\ plans[p].alive /\ plans[q].alive /\ nextHandle < MaxBuilds
    /\ LET d1 == Destroy(plans[p], Eng)
           d2 == MoveAssignSource(IF p = q THEN d1.pl ELSE plans[q], d1.eng)
           other == d2.pl
           pl == [d1.pl EXCEPT !.in = other.in, !.out = other.out,
                               !.flag = other.flag, !.dir = other.dir,
                               !.kinds = other.kinds, !.moved = other.moved]
           m == MakePlan(tkind, pl, d2.eng)
       IN /\ aborted' = m.abort
          /\ SetEng(IF m.abort THEN Gone(m.eng) ELSE m.eng)
          /\ plans' = IF m.abort THEN NoPlans
                      ELSE IF p = q
                      THEN [plans EXCEPT ![p] = [pl EXCEPT !.plan = m.h]]
                      ELSE [plans EXCEPT ![p] = [pl EXCEPT !.plan = m.h],
                                         ![q] = MovedFrom(other)]
          /\ last' = [BuildLast("MoveAssign", p, q, pl, m) EXCEPT
                         !.srcH = plans[q].plan, !.dstH = plans[p].plan,
                         !.dstMoved = plans[p].moved]
    /\ UNCHANGED <<tkind, precision, call, ret>>

\* The state after a member function that only runs the engine or aborts.
RunOrAbort(ok) ==
    /\ aborted' = ~ok
    /\ SetEng(IF ok THEN Eng ELSE Gone(Eng))
    /\ plans' = IF ok THEN plans ELSE NoPlans
    /\ UNCHANGED <<tkind, precision, call, ret>>

\* Execute() without its assert(!IsNull()).
ExecuteOkUnchecked(pl) == TRUE

\* The assert of Execute() (Plan.h 283).
ExecuteOk(pl) == ~IsNull(pl)

\* void Execute() (Plan.h 282-293)
Execute(p) ==
    /\ ~aborted /\ plans[p].alive
    /\ LET ok == ExecuteOk(plans[p])
       IN /\ RunOrAbort(ok)
          /\ last' = [LastNone EXCEPT !.op = "Execute", !.dst = p,
                         !.dstH = plans[p].plan,
                         !.ran = ok,
                         !.rh = IF ok THEN plans[p].plan ELSE NullHandle]

\* Execute(newIn, newOut) that does not compare the output storage.
ExecuteNewOkNoOut(tk, pl, nin, nout) ==
    /\ ~IsNull(pl)
    /\ EqualStorage(pl.in, nin)
    /\ Transformable(tk, nin, nout)

\* The four asserts of Execute(newIn, newOut) (Plan.h 299-302, 318-321,
\* 337-340, 356-359), in order.
ExecuteNewOk(tk, pl, nin, nout) ==
    /\ ~IsNull(pl)
    /\ EqualStorage(pl.in, nin)
    /\ EqualStorage(pl.out, nout)
    /\ Transformable(tk, nin, nout)

\* void Execute(InputView newIn, OutputView newOut) (Plan.h 296-369)
ExecuteNew(p, nin, nout) ==
    /\ ~aborted /\ plans[p].alive
    /\ LET ok == ExecuteNewOk(tkind, plans[p], nin, nout)
       IN /\ RunOrAbort(ok)
          /\ last' = [LastNone EXCEPT !.op = "ExecuteNew", !.dst = p,
                         !.dstH = plans[p].plan,
                         !.ran = ok,
                         !.rh = IF ok THEN plans[p].plan ELSE NullHandle,
                         !.bin = plans[p].in, !.bout = plans[p].out,
                         !.nin = nin, !.nout = nout]

\* void ForgetWisdom() (Wisdom.h 24): fftw_forget_wisdom(), the function of
\* the double-precision library, and no other.
ForgetWisdom ==
    /\ ~aborted
    /\ wisdom # {}
    /\ wisdom' = {w \in wisdom : w.prec # "double"}
    /\ last' = [LastNone EXCEPT !.op = "ForgetWisdom"]
    /\ UNCHANGED <<tkind, precision, plans, nextHandle, released, nullRel,
                   dblRel, aborted, call, ret>>

\* direction.Reverse() (Plan.h 533): the opposite direction.
ReverseDir(dir) == IF dir = DirFwd THEN DirBwd ELSE DirFwd

\* The transform kind of Plan(outView, inView, ...) (Plan.h 533): the views
\* exchanged.
RevKind(tk) ==
    CASE tk = "R2C" -> "C2R"
      [] tk = "C2R" -> "R2C"
      [] OTHER -> tk

\* The values of the template argument both: the second Plan of the R2R
\* overload (Plan.h 549) is built by the constructor for C2C, C2R and R2C,
\* which real-to-real views do not satisfy, so both is false there.
Boths(tk) == IF tk = "R2R" THEN {FALSE} ELSE {FALSE, TRUE}

\* A scratch Plan that is let go of without its destructor.
DiscardPlanLeaks(pl, e) == [pl |-> pl, eng |-> e]

\* The scratch Plan goes out of scope (Plan.h 534, 535): ~Plan() (Plan.h 243).
DiscardPlan(pl, e) == Destroy(pl, e)

\* GenerateWisdom<in, out, both> (Plan.h 523-552): a Plan on scratch data is
\* constructed; when both is set a second one, over the exchanged views and
\* the opposite direction, is constructed and destroyed in its own scope;
\* the first is destroyed when the function returns.
GenerateWisdom(in, out, flag, dir, kinds, both) ==
    /\ ~aborted /\ nextHandle + (IF both THEN 1 ELSE 0) < MaxBuilds
    /\ LET pl == NewPlan(in, out, flag, dir, kinds)
           m == MakePlan(tkind, pl, Eng)
           fail1 == m.abort \/ (CtorChecksNonNull(tkind) /\ m.h = NullHandle)
           tk2 == RevKind(tkind)
           pl2 == NewPlan(out, in, flag, ReverseDir(dir), <<>>)
           m2 == MakePlan(tk2, pl2, m.eng)
           fail2 == m2.abort \/ (CtorChecksNonNull(tk2) /\ m2.h = NullHandle)
           d2 == DiscardPlan([pl2 EXCEPT !.plan = m2.h], m2.eng)
           second == both /\ ~fail1
           fail == fail1 \/ (second /\ fail2)
           d == DiscardPlan([pl EXCEPT !.plan = m.h],
                            IF second THEN d2.eng ELSE m.eng)
       IN /\ aborted' = fail
          /\ SetEng(IF fail THEN Gone(IF second THEN m2.eng ELSE m.eng)
                    ELSE d.eng)
          /\ plans' = IF fail THEN NoPlans ELSE plans
          /\ last' = [BuildLast("GenerateWisdom", "none", "none", pl, m) EXCEPT
                         !.calls = (IF m.called THEN 1 ELSE 0)
                                   + (IF second /\ m2.called THEN 1 ELSE 0)]
    /\ UNCHANGED <<tkind, precision, call, ret>>

----------------------------------------------------------------------------
(* Specifications *)

\* Plan lifecycle: two Plan objects, the wisdom store, small views.
Next ==
    \/ \E p \in PlanIds, io \in LifePairs(tkind), flag \in Flags,
          dir \in Dirs(tkind), kinds \in Kinds(tkind) :
            Construct(p, io[1], io[2], flag, dir, kinds)
    \/ \E p \in PlanIds : Destruct(p)
    \/ \E p \in PlanIds, q \in PlanIds : CopyConstruct(p, q)
    \/ \E p \in PlanIds, q \in PlanIds : MoveConstruct(p, q)
    \/ \E p \in PlanIds, q \in PlanIds : CopyAssign(p, q)
    \/ \E p \in PlanIds, q \in PlanIds : MoveAssign(p, q)
    \/ \E p \in PlanIds : Execute(p)
    \/ \E p \in PlanIds, io \in LifePairs(tkind) : ExecuteNew(p, io[1], io[2])
    \/ ForgetWisdom
    \/ \E io \in LifePairs(tkind), flag \in Flags, dir \in Dirs(tkind),
          kinds \in Kinds(tkind), both \in Boths(tkind) :
            GenerateWisdom(io[1], io[2], flag, dir, kinds, both)

Spec == Init /\ [][Next]_vars

\* View compatibility: Plans built with Estimate over a wider set of views,
\* executed on new views.
NextViews ==
    \/ \E p \in PlanIds, in \in AllLayouts, out \in AllLayouts,
          kinds \in Kinds(tkind) :
            Construct(p, in, out, "Estimate", DirFwd, kinds)
    \/ \E p \in PlanIds : Destruct(p)
    \/ \E p \in PlanIds, q \in PlanIds : CopyConstruct(p, q)
    \/ \E p \in PlanIds, nin \in AllLayouts, nout \in AllLayouts :
            ExecuteNew(p, nin, nout)

SpecViews == Init /\ [][NextViews]_vars

\* The wisdom helpers at every precision: Plans of one instantiation are
\* built, run and destroyed, wisdom is generated and forgotten.
InitPrecision ==
    /\ tkind \in TKinds
    /\ precision \in Precisions
    /\ plans = NoPlans
    /\ nextHandle = 0
    /\ released = {}
    /\ nullRel = FALSE
    /\ dblRel = FALSE
    /\ wisdom = {}
    /\ aborted = FALSE
    /\ last = LastNone
    /\ call = NoCall
    /\ ret = NotRun

NextPrecision ==
    \/ \E p \in PlanIds, io \in LifePairs(tkind), flag \in Flags,
          dir \in Dirs(tkind), kinds \in Kinds(tkind) :
            Construct(p, io[1], io[2], flag, dir, kinds)
    \/ \E p \in PlanIds : Destruct(p)
    \/ \E p \in PlanIds : Execute(p)
    \/ ForgetWisdom
    \/ \E io \in LifePairs(tkind), flag \in Flags, dir \in Dirs(tkind),
          kinds \in Kinds(tkind), both \in Boths(tkind) :
            GenerateWisdom(io[1], io[2], flag, dir, kinds, both)

SpecPrecision == InitPrecision /\ [][NextPrecision]_vars

----------------------------------------------------------------------------
(* The iterator-based Plan (src/src/Plan.h, src/src/FFTWPlan.h,            *)
(* src/include/FFTWPlan.h): a constructor that stores what the engine      *)
(* returns, a destructor, and the copy operations the compiler generates.  *)

\* The iterator-based Plan constructors (src/src/Plan.h 31-48) hand their
\* arguments to MakePlan, which hands them to fftw_plan_many_dft and its
\* variants (src/src/Plan.h 181-264), in the order of the parameter list.
IterPlanArgs(rank, n, howmany, inembed, istride, idist, onembed, ostride, odist) ==
    [rank |-> rank, n |-> n, howMany |-> howmany,
     inEmbed |-> inembed, inStride |-> istride, inDist |-> idist,
     outEmbed |-> onembed, outStride |-> ostride, outDist |-> odist]

\* The kinds the iterator-based Plan has constructors for.
IterKinds == {"C2C", "R2C", "C2R"}

\* The (input, output) layouts a caller of the iterator-based constructors
\* describes.
IterPairs(tk) ==
    CASE tk = "R2C" -> {<<L4, L3>>}
      [] tk = "C2R" -> {<<L3, L4>>}
      [] OTHER -> {<<L4, L4>>, <<L3, L3>>}

\* The general constructors (src/src/Plan.h 31-48): MakePlan stores the
\* handle the engine returns; nothing is asserted.
IterConstruct(p, in, out, flag, dir) ==
    /\ ~aborted /\ ~plans[p].alive /\ nextHandle < MaxBuilds
    /\ LET pl == NewPlan(in, out, flag, dir, <<>>)
           args == [tk |-> tkind, prec |-> precision,
                    sign |-> IF tkind = "C2C" THEN dir ELSE "none",
                    a |-> IterPlanArgs(in.rank, in.n, in.howMany, in.embed,
                                       in.stride, in.dist, out.embed,
                                       out.stride, out.dist)]
           b == EngineBuild(Eng, args, flag)
       IN /\ SetEng(b.eng)
          /\ plans' = [plans EXCEPT ![p] = [pl EXCEPT !.plan = b.h]]
          /\ last' = [LastNone EXCEPT !.op = "IterConstruct", !.dst = p,
                         !.calls = 1, !.engNull = (b.h = NullHandle),
                         !.flag = flag, !.bin = in, !.bout = out]
    /\ UNCHANGED <<tkind, precision, aborted, call, ret>>

\* The implicit copy constructor (no copy operation is declared): every
\* member is copied, the engine handle among them.
IterCopyConstruct(p, q) ==
    /\ ~aborted /\ ~plans[p].alive /\ plans[q].alive
    /\ plans' = [plans EXCEPT ![p] = plans[q]]
    /\ last' = [LastNone EXCEPT !.op = "IterCopyConstruct", !.dst = p,
                   !.src = q, !.srcH = plans[q].plan]
    /\ UNCHANGED <<tkind, precision, nextHandle, released, nullRel, dblRel,
                   wisdom, aborted, call, ret>>

\* The implicit copy assignment: every member is overwritten; the handle
\* held before is not released.
IterCopyAssign(p, q) ==
    /\ ~aborted /\ plans[p].alive /\ plans[q].alive /\ p # q
    /\ plans' = [plans EXCEPT ![p] = plans[q]]
    /\ last' = [LastNone EXCEPT !.op = "IterCopyAssign", !.dst = p,
                   !.src = q, !.srcH = plans[q].plan, !.dstH = plans[p].plan]
    /\ UNCHANGED <<tkind, precision, nextHandle, released, nullRel, dblRel,
                   wisdom, aborted, call, ret>>

\* ~Plan() (src/src/Plan.h 133-143, src/src/FFTWPlan.h 140-150,
\* src/include/FFTWPlan.h 118-128): destroy_plan on whatever is stored.
IterDestruct(p) ==
    /\ ~aborted /\ plans[p].alive
    /\ SetEng(EngineRelease(Eng, plans[p].plan))
    /\ plans' = [plans EXCEPT ![p] = DeadPlan]
    /\ last' = [LastNone EXCEPT !.op = "IterDestruct", !.dst = p,
                   !.dstH = plans[p].plan]
    /\ UNCHANGED <<tkind, precision, aborted, call, ret>>

InitIter ==
    /\ tkind \in IterKinds
    /\ precision = "double"
    /\ plans = NoPlans
    /\ nextHandle = 0
    /\ released = {}
    /\ nullRel = FALSE
    /\ dblRel = FALSE
    /\ wisdom = {}
    /\ aborted = FALSE
    /\ last = LastNone
    /\ call = NoCall
    /\ ret = NotRun

NextIter ==
    \/ \E p \in PlanIds, io \in IterPairs(tkind), flag \in Flags :
            IterConstruct(p, io[1], io[2], flag, DirFwd)
    \/ \E p \in PlanIds, q \in PlanIds : IterCopyConstruct(p, q)
    \/ \E p \in PlanIds, q \in PlanIds : IterCopyAssign(p, q)
    \/ \E p \in PlanIds : IterDestruct(p)

SpecIter == InitIter /\ [][NextIter]_vars

----------------------------------------------------------------------------
(* int arithmetic (32-bit two's complement).  Signed overflow is undefined *)
(* behaviour: a build either wraps the result or traps.                    *)

IntMax == 2147483647
IntMin == (-IntMax) - 1

\* x + y modulo 2^32, as a signed value; no intermediate leaves the int range.
AddWrap(x, y) ==
    IF x >= 0 /\ y >= 0
    THEN IF x <= IntMax - y THEN x + y ELSE (x + IntMin) + (y + IntMin)
    ELSE IF x < 0 /\ y < 0
    THEN IF x >= IntMin - y THEN x + y ELSE (x - IntMin) + (y - IntMin)
    ELSE x + y

NegWrap(x) == IF x = IntMin THEN IntMin ELSE -x

\* a * b modulo 2^32 for b >= 0, by doubling.
RECURSIVE MulWrapNat(_, _)
MulWrapNat(a, b) ==
    IF b = 0 THEN 0
    ELSE LET h == MulWrapNat(a, b \div 2)
             d == AddWrap(h, h)
         IN IF b % 2 = 1 THEN AddWrap(d, a) ELSE d

\* a * b modulo 2^32, as a signed value.
MulWrap(a, b) ==
    IF b >= 0 THEN MulWrapNat(a, b)
    ELSE IF b = IntMin THEN MulWrapNat(b, a)
    ELSE MulWrapNat(NegWrap(a), -b)

\* Whether the int product a * b is representable (no overflow).
MulFits(a, b) ==
    \/ a = 0 \/ b = 0
    \/ /\ ~(a = IntMin /\ b = -1) /\ ~(b = IntMin /\ a = -1)
       /\ LET w == MulWrap(a, b)
          IN IF b = IntMin THEN w \div a = b /\ w % a = 0
             ELSE IF b > 0 THEN w \div b = a /\ w % b = 0
             ELSE NegWrap(w) \div (-b) = a /\ NegWrap(w) % (-b) = 0

\* An int multiplication: the value, and whether the behaviour was undefined.
\* acc is the result so far, [ub, v].
IntMul(acc, b) ==
    [ub |-> acc.ub \/ ~MulFits(acc.v, b), v |-> MulWrap(acc.v, b)]

\* std::reduce(first, last, 1, std::multiplies<>()) over int (Views.h 168-169)
RECURSIVE ReduceMul(_, _)
ReduceMul(acc, s) ==
    IF s = <<>> THEN acc ELSE ReduceMul(IntMul(acc, Head(s)), Tail(s))

\* HowMany() * std::reduce(EmbedView().begin(), EmbedView().end(), 1, ...)
\* (Views.h 167-171 and 336-339): computed in int.
StorageSize(lay) ==
    LET r == ReduceMul([ub |-> FALSE, v |-> 1], lay.embed)
        p == IntMul([ub |-> FALSE, v |-> lay.howMany], r.v)
    IN [ub |-> r.ub \/ p.ub, v |-> p.v]

\* What a build makes of undefined behaviour.
UBOutcomes == {"wrap", "trap"}

----------------------------------------------------------------------------
(* Calls outside the Plan lifecycle: layouts, views, kinds, wisdom files.  *)
(* Each behaviour makes one call: Init draws the call and its arguments,   *)
(* the action for the called function runs it.                             *)

\* Longest n / embed vector a caller passes.
MaxRank == 2
\* Largest axis size in the views compared by Transformable.
MaxN == 5
\* Longest buffer bound to a view.
MaxLen == 6

\* An axis size whose square does not fit in int.
BigDim == 65536

SeqsOf(S, k) == [1..k -> S]
SeqsUpTo(S, k) == UNION {SeqsOf(S, i) : i \in 0..k}

\* The variables of the Plan lifecycle, which these calls leave alone.
lifeVars ==
    <<tkind, precision, plans, nextHandle, released, nullRel, dblRel, wisdom,
      last>>

\* Views a caller compares: contiguous, n of rank entries, one or two
\* transforms.
CompareLayouts ==
    {MkLayout(Len(n), n, h, n, 1, ReduceMul([ub |-> FALSE, v |-> 1], n).v) :
        n \in SeqsUpTo(1..MaxN, MaxRank) \ {<<>>}, h \in 1..2}

TransformableCalls ==
    {[fn |-> "Transformable", real |-> a, cplx |-> b] :
        a \in CompareLayouts, b \in CompareLayouts}

\* Arguments a caller passes to the DataLayout constructor, valid or not.
DataLayoutCalls ==
    {[fn |-> "DataLayout", rank |-> r, n |-> n, howMany |-> h, embed |-> e,
      stride |-> st, dist |-> d] :
        r \in 0..MaxRank, n \in SeqsUpTo({0, 2}, MaxRank), h \in {-1, 1},
        e \in SeqsUpTo({0, 2}, MaxRank), st \in {0, 1}, d \in {0, 1}}

\* Layouts with positive entries, small and large.
SizedLayouts ==
    {MkLayout(Len(e), e, h, e, 1, 1) :
        e \in SeqsUpTo({1, 2, 3, BigDim}, MaxRank) \ {<<>>},
        h \in {1, 2, BigDim}}

StorageSizeCalls == {[fn |-> "StorageSize", layout |-> l] : l \in SizedLayouts}

DataViewCalls ==
    {[fn |-> "DataView", len |-> k, layout |-> l] :
        k \in 0..MaxLen, l \in SizedLayouts}

\* a.Transformable(b) for a real view a and a complex view b, and
\* b.Transformable(a) for the same two views (Views.h 288-316).
CallTransformable ==
    /\ ~aborted /\ call.fn = "Transformable" /\ ~ret.done
    /\ ret' = [done |-> TRUE,
               r2c |-> Transformable("R2C", call.real, call.cplx),
               c2r |-> Transformable("C2R", call.cplx, call.real)]
    /\ UNCHANGED <<lifeVars, aborted, call>>

\* DataLayout(rank, n, howMany, embed, stride, dist) (Views.h 134-144): the
\* arguments are stored as given.
CallDataLayout ==
    /\ ~aborted /\ call.fn = "DataLayout" /\ ~ret.done
    /\ ret' = [done |-> TRUE,
               obj |-> MkLayout(call.rank, call.n, call.howMany, call.embed,
                                call.stride, call.dist)]
    /\ UNCHANGED <<lifeVars, aborted, call>>

\* DataLayout::StorageSize (Views.h 167-171): the int product converted to
\* std::size_t.
CallStorageSize ==
    /\ ~aborted /\ call.fn = "StorageSize" /\ ~ret.done
    /\ \E o \in UBOutcomes :
          LET sz == StorageSize(call.layout)
              trap == sz.ub /\ o = "trap"
          IN /\ ret' = [done |-> TRUE, trap |-> trap, ub |-> sz.ub,
                        val |-> IF trap THEN 0 ELSE sz.v]
             /\ aborted' = trap
    /\ UNCHANGED <<lifeVars, call>>

\* DataView::CheckConsistency (Views.h 333-341): int dataSize against the
\* int product; o is what the build makes of an overflow.
CheckConsistency(len, lay, o) ==
    LET sz == StorageSize(lay)
    IN /\ ~(sz.ub /\ o = "trap")
       /\ len = sz.v

\* DataView(start, finish, layout) over a buffer of len elements
\* (Views.h 213-226).
CallDataView ==
    /\ ~aborted /\ call.fn = "DataView" /\ ~ret.done
    /\ \E o \in UBOutcomes :
          LET ok == CheckConsistency(call.len, call.layout, o)
          IN /\ ret' = [done |-> TRUE, built |-> ok]
             /\ aborted' = ~ok
    /\ UNCHANGED <<lifeVars, call>>

\* enum class KindOption (Flags.h 44-55)
KindOptions ==
    {"HC", "DHT", "DCTI", "DCTII", "DCTIII", "DCTIV",
     "DSTI", "DSTII", "DSTIII", "DSTIV"}

\* The fftw_r2r_kind values a RealKind wraps (Options.h 226-253).
RealKinds ==
    {"R2HC", "HC2R", "DHT", "REDFT00", "REDFT10", "REDFT01", "REDFT11",
     "RODFT00", "RODFT10", "RODFT01", "RODFT11"}

\* A LogicalSize that treats the first-kind transforms like the others.
LogicalSizeNoFirstKind(kind, n) ==
    IF kind \in {"HC", "DHT"} THEN n ELSE 2 * n

\* Kind::LogicalSize (Flags.h 150-187)
LogicalSize(kind, n) ==
    CASE kind = "DCTI"   -> 2 * (n - 1)
      [] kind = "DCTII"  -> 2 * n
      [] kind = "DCTIII" -> 2 * n
      [] kind = "DCTIV"  -> 2 * n
      [] kind = "DSTI"   -> 2 * (n + 1)
      [] kind = "DSTII"  -> 2 * n
      [] kind = "DSTIII" -> 2 * n
      [] kind = "DSTIV"  -> 2 * n
      [] OTHER -> n

\* RealKind::LogicalDimension (Options.h 261-288)
LogicalDimension(kind, n) ==
    CASE kind = "R2HC"    -> n
      [] kind = "HC2R"    -> n
      [] kind = "DHT"     -> n
      [] kind = "REDFT00" -> 2 * (n - 1)
      [] kind = "REDFT10" -> 2 * n
      [] kind = "REDFT01" -> 2 * n
      [] kind = "REDFT11" -> 2 * n
      [] kind = "RODFT00" -> 2 * (n + 1)
      [] kind = "RODFT10" -> 2 * n
      [] kind = "RODFT01" -> 2 * n
      [] kind = "RODFT11" -> 2 * n
      [] OTHER -> n

\* An Inverse that maps the type-II cosine and sine transforms to themselves.
InverseNoSwap(kind) ==
    CASE kind = "R2HC"    -> "HC2R"
      [] kind = "HC2R"    -> "R2HC"
      [] kind = "REDFT01" -> "REDFT10"
      [] kind = "RODFT01" -> "RODFT10"
      [] kind \in RealKinds -> kind
      [] OTHER -> "HC2R"

\* RealKind::Inverse (Options.h 226-253)
Inverse(kind) ==
    CASE kind = "R2HC"    -> "HC2R"
      [] kind = "HC2R"    -> "R2HC"
      [] kind = "DHT"     -> "DHT"
      [] kind = "REDFT00" -> "REDFT00"
      [] kind = "REDFT10" -> "REDFT01"
      [] kind = "REDFT01" -> "REDFT10"
      [] kind = "REDFT11" -> "REDFT11"
      [] kind = "RODFT00" -> "RODFT00"
      [] kind = "RODFT10" -> "RODFT01"
      [] kind = "RODFT01" -> "RODFT10"
      [] kind = "RODFT11" -> "RODFT11"
      [] OTHER -> "HC2R"

\* Sizes passed to LogicalDimension / LogicalSize: small ones and the
\* largest for which 2 * (n + 1) is an int.
SizeArgs == (1..MaxN) \cup {(IntMax \div 2) - 1}

LogicalDimensionCalls ==
    {[fn |-> "LogicalDimension", kind |-> k, n |-> n] :
        k \in RealKinds, n \in SizeArgs}

LogicalSizeCalls ==
    {[fn |-> "LogicalSize", kind |-> k, n |-> n] :
        k \in KindOptions, n \in SizeArgs}

InverseCalls == {[fn |-> "Inverse", kind |-> k] : k \in RealKinds}

\* k.LogicalDimension(n) (Options.h 261-288)
CallLogicalDimension ==
    /\ ~aborted /\ call.fn = "LogicalDimension" /\ ~ret.done
    /\ ret' = [done |-> TRUE, val |-> LogicalDimension(call.kind, call.n)]
    /\ UNCHANGED <<lifeVars, aborted, call>>

\* k.LogicalSize(n) (Flags.h 150-187)
CallLogicalSize ==
    /\ ~aborted /\ call.fn = "LogicalSize" /\ ~ret.done
    /\ ret' = [done |-> TRUE, val |-> LogicalSize(call.kind, call.n)]
    /\ UNCHANGED <<lifeVars, aborted, call>>

\* k.Inverse().Inverse() (Options.h 226-253)
CallInverse ==
    /\ ~aborted /\ call.fn = "Inverse" /\ ~ret.done
    /\ ret' = [done |-> TRUE, val |-> Inverse(call.kind),
               back |-> Inverse(Inverse(call.kind))]
    /\ UNCHANGED <<lifeVars, aborted, call>>

\* The loop of the R2R Normalisation (Plan.h 270-275):
\* dim *= (kindIt++)->LogicalSize(*nIt++) over the input view's n.
RECURSIVE KindsDim(_, _)
KindsDim(n, kinds) ==
    IF n = <<>> THEN 1
    ELSE LogicalSize(Head(kinds), Head(n)) * KindsDim(Tail(n), Tail(kinds))

\* Plan::Normalisation (Plan.h 261-279): the value dim of the returned
\* 1 / dim.  The R2R overload is the more constrained one.
Normalisation(tk, in, out, kinds) ==
    IF tk = "R2R" THEN KindsDim(in.n, kinds)
    ELSE ReduceMul([ub |-> FALSE, v |-> 1], out.n).v

\* Testing::Plan::Normalisation (Plan.h 102-108): one definition for every
\* kind of transform, the product of the output view's n.
TestingNormalisation(tk, in, out, kinds) ==
    ReduceMul([ub |-> FALSE, v |-> Head(out.n)], Tail(out.n)).v

\* The (input, output) views of built Plans whose Normalisation is taken.
NormPairs(tk) ==
    CASE tk = "R2C" -> {<<L4, L3>>, <<L24, L23>>}
      [] tk = "C2R" -> {<<L3, L4>>, <<L23, L24>>}
      [] OTHER -> {<<L4, L4>>, <<L3, L3>>, <<L24, L24>>}

NormalisationCalls ==
    {[fn |-> "Normalisation", tk |-> tk, in |-> io[1], out |-> io[2],
      kinds |-> ks] :
        tk \in TKinds, io \in UNION {NormPairs(t) : t \in TKinds},
        ks \in SeqsUpTo(KindOptions, 2)}

\* Calls on a built Plan: views its kind accepts, one kind per axis for R2R.
BuiltNormalisationCalls ==
    {c \in NormalisationCalls :
        /\ <<c.in, c.out>> \in NormPairs(c.tk)
        /\ Len(c.kinds) = IF c.tk = "R2R" THEN c.in.rank ELSE 0}

TestingNormalisationCalls ==
    {[fn |-> "Testing::Normalisation", tk |-> tk, in |-> io[1], out |-> io[2],
      kinds |-> ks] :
        tk \in TKinds, io \in {<<L4, L4>>, <<L3, L3>>, <<L4, L3>>, <<L3, L4>>},
        ks \in SeqsUpTo(RealKinds, 1)}

BuiltTestingNormalisationCalls ==
    {c \in TestingNormalisationCalls :
        /\ Transformable(IF c.tk = "R2R" THEN "C2C" ELSE c.tk, c.in, c.out)
        /\ Len(c.kinds) = IF c.tk = "R2R" THEN c.in.rank ELSE 0}

\* plan.Normalisation() on a built FFTWpp::Plan (Plan.h 261-279)
CallNormalisation ==
    /\ ~aborted /\ call.fn = "Normalisation" /\ ~ret.done
    /\ ret' = [done |-> TRUE, num |-> 1,
               den |-> Normalisation(call.tk, call.in, call.out, call.kinds)]
    /\ UNCHANGED <<lifeVars, aborted, call>>

\* plan.Normalisation() on a built Testing::Plan (Plan.h 102-108)
CallTestingNormalisation ==
    /\ ~aborted /\ call.fn = "Testing::Normalisation" /\ ~ret.done
    /\ ret' = [done |-> TRUE, num |-> 1,
               den |-> TestingNormalisation(call.tk, call.in, call.out,
                                            call.kinds)]
    /\ UNCHANGED <<lifeVars, aborted, call>>

\* What fftw_export_wisdom_to_filename / fftw_import_wisdom_from_filename
\* return (Wisdom.h 15, 20): non-zero on success, zero on failure.
EngineIoResult(ok) == IF ok THEN 1 ELSE 0

\* assert(io == 0) (Wisdom.h 16, 21)
WisdomIoAssert(io) == io = 0

WisdomIoCalls == {[fn |-> f] : f \in {"ExportWisdom", "ImportWisdom"}}

\* void ExportWisdom(filename) (Wisdom.h 14-17): the engine writes the file
\* or fails to.
CallExportWisdom ==
    /\ ~aborted /\ call.fn = "ExportWisdom" /\ ~ret.done
    /\ \E ok \in BOOLEAN :
          /\ ret' = [done |-> TRUE, engineOk |-> ok]
          /\ aborted' = ~WisdomIoAssert(EngineIoResult(ok))
    /\ UNCHANGED <<lifeVars, call>>

\* void ImportWisdom(filename) (Wisdom.h 19-22): the engine reads the file
\* or fails to; the program ends when the assertion fails, so what was
\* read is not kept.
CallImportWisdom ==
    /\ ~aborted /\ call.fn = "ImportWisdom" /\ ~ret.done
    /\ \E ok \in BOOLEAN :
          /\ ret' = [done |-> TRUE, engineOk |-> ok]
          /\ aborted' = ~WisdomIoAssert(EngineIoResult(ok))
    /\ UNCHANGED <<lifeVars, call>>

\* Plan(in, out, flag) and Plan(in, out, flag, kinds) of FFTWpp::Plan
\* (Plan.h 173-195) on views its kind accepts, with one or two kinds for R2R.
PlanCalls ==
    UNION {{[fn |-> "Plan", tk |-> tk, in |-> io[1], out |-> io[2], kinds |-> ks] :
                io \in NormPairs(tk),
                ks \in IF tk = "R2R" THEN SeqsUpTo(KindOptions, MaxRank) \ {<<>>}
                       ELSE {<<>>}} :
           tk \in TKinds}

\* The same constructions with Testing::Plan (Plan.h 48-84).
TestingPlanCalls ==
    UNION {{[fn |-> "Testing::Plan", tk |-> tk, in |-> io[1], out |-> io[2],
             kinds |-> ks] :
                io \in NormPairs(tk),
                ks \in IF tk = "R2R" THEN SeqsUpTo(RealKinds, MaxRank) \ {<<>>}
                       ELSE {<<>>}} :
           tk \in TKinds}

\* The constructor of FFTWpp::Plan with Estimate and Forward (Plan.h 173-195):
\* what MakePlan hands to the engine.
CallPlan ==
    /\ ~aborted /\ call.fn = "Plan" /\ ~ret.done
    /\ LET pl == NewPlan(call.in, call.out, "Estimate", DirFwd, call.kinds)
           m == MakePlan(call.tk, pl, Eng)
           args == EngineArgs(call.tk, pl)
       IN /\ ret' = [done |-> TRUE, called |-> m.called, ub |-> FALSE,
                     n |-> IF m.called THEN args.n ELSE <<>>,
                     kinds |-> IF m.called THEN args.kinds ELSE <<>>]
          /\ aborted' = m.abort
    /\ UNCHANGED <<lifeVars, call>>

\* Testing::Plan::CheckInputs (Plan.h 120-148)
TestingCheckInputs(tk, in, out) ==
    IF in.rank # out.rank THEN FALSE
    ELSE IF in.howMany # out.howMany THEN FALSE
    ELSE IF tk = "R2R" THEN TRUE
    ELSE Transformable(tk, in, out)

\* What the engine reads through kinds.data() (Plan.h 82) for rank axes:
\* the kinds supplied and, past the end of the vector, junk.
TestingKindsRead(kinds, rank, junk) ==
    [i \in 1..rank |-> IF i <= Len(kinds) THEN kinds[i] ELSE junk[i - Len(kinds)]]

\* The constructors of Testing::Plan (Plan.h 48-84): assert(CheckInputs()),
\* then the build with the input view's n and, for R2R, the pointer to the
\* kinds.  Reading past the end of the kinds is undefined: the build traps
\* or reads whatever follows.
CallTestingPlan ==
    /\ ~aborted /\ call.fn = "Testing::Plan" /\ ~ret.done
    /\ LET ok == TestingCheckInputs(call.tk, call.in, call.out)
           short == call.tk = "R2R" /\ Len(call.kinds) < call.in.rank
           missing == IF short THEN call.in.rank - Len(call.kinds) ELSE 0
       IN \E o \in UBOutcomes, junk \in SeqsOf(RealKinds, missing) :
            LET trap == ok /\ short /\ o = "trap"
                called == ok /\ ~trap
            IN /\ ret' = [done |-> TRUE, called |-> called, ub |-> ok /\ short,
                          n |-> IF called THEN call.in.n ELSE <<>>,
                          kinds |-> IF called /\ call.tk = "R2R"
                                    THEN TestingKindsRead(call.kinds,
                                                          call.in.rank, junk)
                                    ELSE <<>>]
               /\ aborted' = ~called
    /\ UNCHANGED <<lifeVars, call>>

\* Plan1DMany (src/src/Plan.h 289-312): the arguments of the constructor
\* call, in the order in which the call lists them.
Plan1DMany(dimension, howmany) ==
    LET rank == 1
        dimensions == <<dimension>>
        idist == dimension
        istride == 1
        odist == dimension
        ostride == 1
    IN IterPlanArgs(rank, dimensions, howmany, dimensions, idist, istride,
                    dimensions, odist, ostride)

\* MakeDataView1DMany over a buffer of len elements (Views.h 364-378): the
\* two asserts, then the layout of the view.
MakeDataView1DMany(len, howMany) ==
    IF howMany <= 0 THEN [abort |-> TRUE, layout |-> NoLayout]
    ELSE IF len % howMany # 0 THEN [abort |-> TRUE, layout |-> NoLayout]
    ELSE LET dim == len \div howMany
             rank == 1
             n == <<dim>>
             stride == 1
             dist == dim
         IN [abort |-> FALSE,
             layout |-> MkLayout(rank, n, howMany, n, stride, dist)]

Plan1DManyCalls ==
    {[fn |-> "Plan1DMany", dimension |-> d, howmany |-> h] :
        d \in 1..MaxN, h \in 1..2}

MakeDataView1DManyCalls ==
    {[fn |-> "MakeDataView1DMany", len |-> k, howMany |-> h] :
        k \in 0..MaxLen, h \in 0..2}

\* Plan1DMany(dimension, howmany, in, out, flag) (src/src/Plan.h 289-312)
CallPlan1DMany ==
    /\ ~aborted /\ call.fn = "Plan1DMany" /\ ~ret.done
    /\ ret' = [done |-> TRUE, args |-> Plan1DMany(call.dimension, call.howmany)]
    /\ UNCHANGED <<lifeVars, aborted, call>>

\* MakeDataView1DMany(start, finish, howMany) (Views.h 364-378); the
\* DataView constructor then checks the size (Views.h 213-226).
CallMakeDataView1DMany ==
    /\ ~aborted /\ call.fn = "MakeDataView1DMany" /\ ~ret.done
    /\ LET v == MakeDataView1DMany(call.len, call.howMany)
       IN \E o \in UBOutcomes :
            LET ok == ~v.abort /\ CheckConsistency(call.len, v.layout, o)
            IN /\ ret' = [done |-> TRUE, built |-> ok,
                          layout |-> IF ok THEN v.layout ELSE NoLayout]
               /\ aborted' = ~ok
    /\ UNCHANGED <<lifeVars, call>>

\* One-axis layouts with strides and distances other than the contiguous
\* ones.
StridedLayouts ==
    {MkLayout(1, <<e>>, h, <<e>>, st, d) :
        e \in 1..3, h \in 1..2, st \in 1..2, d \in {1, 3, MaxLen}}

StridedViewCalls ==
    {[fn |-> "DataView", len |-> k, layout |-> l] :
        k \in 1..MaxLen, l \in StridedLayouts}

\* kindsBackward in the R2R GenerateWisdom (Wisdom.h 67-69): a copy of
\* kinds; the transform view over it that would apply Inverse is built
\* and dropped, it is neither evaluated nor stored.
KindsBackward(kinds) == kinds

\* The R2R GenerateWisdom (Wisdom.h 52-73): the Ranges::Plan constructions
\* it makes, in order, each with its input view, output view and kinds.
WisdomR2RPlans(kinds, flag, forward, backward) ==
    IF flag = "Estimate" THEN <<>>
    ELSE (IF forward
          THEN <<[in |-> "inView", out |-> "outView", kinds |-> kinds,
                  flag |-> flag]>>
          ELSE <<>>)
         \o (IF backward
             THEN <<[in |-> "outView", out |-> "inView",
                     kinds |-> KindsBackward(kinds), flag |-> flag]>>
             ELSE <<>>)

WisdomR2RCalls ==
    {[fn |-> "GenerateWisdomR2R", kinds |-> ks, flag |-> f, forward |-> fw,
      backward |-> bw] :
        ks \in SeqsUpTo(RealKinds, MaxRank) \ {<<>>}, f \in Flags,
        fw \in BOOLEAN, bw \in BOOLEAN}

\* GenerateWisdom(inLayout, outLayout, kinds, flag, forward, backward)
\* (Wisdom.h 52-73); each Plan is destroyed at the end of its statement.
CallGenerateWisdomR2R ==
    /\ ~aborted /\ call.fn = "GenerateWisdomR2R" /\ ~ret.done
    /\ ret' = [done |-> TRUE,
               plans |-> WisdomR2RPlans(call.kinds, call.flag, call.forward,
                                        call.backward)]
    /\ UNCHANGED <<lifeVars, aborted, call>>

AllCalls ==
    TransformableCalls \cup DataLayoutCalls \cup StorageSizeCalls
        \cup DataViewCalls \cup LogicalDimensionCalls \cup LogicalSizeCalls
        \cup InverseCalls \cup BuiltNormalisationCalls
        \cup BuiltTestingNormalisationCalls \cup WisdomIoCalls
        \cup PlanCalls \cup TestingPlanCalls
        \cup Plan1DManyCalls \cup MakeDataView1DManyCalls
        \cup StridedViewCalls \cup WisdomR2RCalls

InitCalls ==
    /\ tkind = "C2C"
    /\ precision = "double"
    /\ plans = NoPlans
    /\ nextHandle = 0
    /\ released = {}
    /\ nullRel = FALSE
    /\ dblRel = FALSE
    /\ wisdom = {}
    /\ aborted = FALSE
    /\ last = LastNone
    /\ call \in AllCalls
    /\ ret = NotRun

NextCalls ==
    \/ CallTransformable
    \/ CallDataLayout
    \/ CallStorageSize
    \/ CallDataView
    \/ CallLogicalDimension
    \/ CallLogicalSize
    \/ CallInverse
    \/ CallNormalisation
    \/ CallTestingNormalisation
    \/ CallExportWisdom
    \/ CallImportWisdom
    \/ CallPlan
    \/ CallTestingPlan
    \/ CallPlan1DMany
    \/ CallMakeDataView1DMany
    \/ CallGenerateWisdomR2R

SpecCalls == InitCalls /\ [][NextCalls]_vars

----------------------------------------------------------------------------
(* Properties *)

BuildOps == {"Construct", "CopyConstruct", "MoveConstruct", "CopyAssign", "MoveAssign"}
MoveOps == {"MoveConstruct", "MoveAssign"}
AssignOps == {"CopyAssign", "MoveAssign"}
RunOps == {"Execute", "ExecuteNew"}

\* The live Plan objects that hold handle h.
Owners(h) == {p \in PlanIds : plans[p].alive /\ plans[p].plan = h}

\* C1: release-plan is never invoked on a null handle nor on a handle already
\* released; every handle build-plan returned is either held by exactly one
\* live Plan and not released, or held by none and released (once); so when
\* every Plan has been destroyed every handle has been released exactly once.
C1_ReleasedExactlyOnce ==
    /\ ~nullRel
    /\ ~dblRel
    /\ released \subseteq 1..nextHandle
    /\ \A p \in PlanIds : plans[p].plan \in 0..nextHandle
    /\ ~aborted =>
         \A h \in 1..nextHandle :
            IF h \in released THEN Owners(h) = {} ELSE Cardinality(Owners(h)) = 1

\* A self move assignment of a built Plan has released the old handle and
\* the Plan holds a new one.
C1_Witness ==
    /\ last.op = "MoveAssign" /\ last.dst = last.src /\ ~aborted
    /\ last.dstH # NullHandle /\ last.dstH \in released
    /\ plans[last.dst].plan \notin released \cup {NullHandle}

\* C2: a move (construction or assignment) makes no engine build call and
\* leaves in the destination exactly the handle the source held.
C2_MoveTransfersHandle ==
    (last.op \in MoveOps /\ ~aborted) =>
        /\ last.calls = 0
        /\ plans[last.dst].plan = last.srcH

\* C3: after a built Plan is moved into another Plan, the source is null and
\* the destination is built, for the same views and flag.
C3_MovedToIsBuilt ==
    (last.op \in MoveOps /\ ~aborted /\ last.src # last.dst
        /\ last.srcH # NullHandle) =>
        /\ IsNull(plans[last.src])
        /\ ~IsNull(plans[last.dst])
        /\ plans[last.dst].in = last.bin
        /\ plans[last.dst].out = last.bout
        /\ plans[last.dst].flag = last.flag

\* C4 (as claimed): once a Plan is moved-from (its handle null), no later
\* operation on that object makes its handle non-null again.
C4_DestroyedIsTerminal ==
    [][\A p \in PlanIds :
          (plans[p].alive /\ plans[p].moved /\ plans'[p].alive) =>
              IsNull(plans'[p])]_vars

\* C4 (amended): a moved-from Plan has a null handle, and the handle stays
\* null under every operation on that object except a copy or move
\* assignment into it from another Plan, which rebuilds it.
C4_NullUntilAssigned ==
    /\ [](\A p \in PlanIds : plans[p].moved => IsNull(plans[p]))
    /\ [][\A p \in PlanIds :
            (plans[p].alive /\ plans[p].moved /\ plans'[p].alive
                /\ ~IsNull(plans'[p])) =>
                (last'.op \in AssignOps /\ last'.dst = p /\ last'.src # p)]_vars

\* An assignment into a moved-from Plan has made its handle non-null.
C4_Witness ==
    /\ last.op \in AssignOps /\ ~aborted /\ last.dstMoved
    /\ ~IsNull(plans[last.dst])

\* C5: when build-plan returns null, construction completes without
\* aborting and the Plan reports IsNull(), for every kind.
C5_NullBuildYieldsNullPlan ==
    (last.op = "Construct" /\ last.engNull) =>
        /\ ~aborted
        /\ plans[last.dst].alive
        /\ IsNull(plans[last.dst])

\* C6 (as claimed): a constructor or assignment that returns normally
\* leaves the Plan built.
C6_ReturnedPlanIsBuilt ==
    (last.op \in BuildOps /\ ~aborted) => ~IsNull(plans[last.dst])

\* C6 (amended): the C2C / R2C / C2R constructor returns normally only with
\* a built Plan; the R2R constructor, the copy and move constructors and
\* the assignment operators return normally with a null handle exactly when
\* build-plan returned null.
C6_BuiltUnlessEngineNull ==
    (last.op \in BuildOps /\ ~aborted) =>
        /\ (last.op = "Construct" /\ tkind # "R2R") => ~IsNull(plans[last.dst])
        /\ IsNull(plans[last.dst]) <=> last.engNull

\* A C2C / R2C / C2R constructor called with WisdomOnly has returned a built
\* Plan.
C6_Witness ==
    /\ last.op = "Construct" /\ tkind # "R2R" /\ ~aborted
    /\ last.flag = "WisdomOnly"
    /\ plans[last.dst].alive /\ ~IsNull(plans[last.dst])

\* C7: a WisdomOnly construction for a shape yields a null Plan when no
\* wisdom is stored for the shape and a built Plan when wisdom is stored.
C7_WisdomOnlyFollowsWisdom ==
    (last.op = "Construct" /\ last.flag = "WisdomOnly" /\ last.calls = 1) =>
        /\ ~aborted
        /\ plans[last.dst].alive
        /\ IsNull(plans[last.dst]) <=> ~last.hadW

\* C8: run-plan is only reached with a non-null handle that has not been
\* released; Execute on a Plan whose handle is null aborts before the engine.
C8_RunOnlyLiveHandle ==
    last.op \in RunOps =>
        /\ last.ran => /\ ~aborted
                       /\ last.rh \in 1..nextHandle
                       /\ last.rh \notin released
                       /\ last.rh = plans[last.dst].plan
        /\ last.dstH = NullHandle => (aborted /\ ~last.ran)

\* Execute was called on a Plan with a null handle and aborted.
C8_Witness ==
    /\ last.op = "Execute" /\ last.dstH = NullHandle
    /\ aborted /\ ~last.ran

\* C9: Execute(newIn, newOut) reaches the engine only if newIn has
\* EqualStorage with the bound input view, newOut with the bound output
\* view, and newIn.Transformable(newOut); otherwise it aborts before it.
C9_ExecuteNewGuards ==
    last.op = "ExecuteNew" =>
        LET ok == /\ EqualStorage(last.bin, last.nin)
                  /\ EqualStorage(last.bout, last.nout)
                  /\ Transformable(tkind, last.nin, last.nout)
        IN /\ last.ran => ok
           /\ ~ok => (aborted /\ ~last.ran)

\* Execute(newIn, newOut) on a built Plan was rejected only because newOut
\* does not have the storage of the bound output view.
C9_Witness ==
    /\ last.op = "ExecuteNew" /\ last.dstH # NullHandle
    /\ EqualStorage(last.bin, last.nin)
    /\ Transformable(tkind, last.nin, last.nout)
    /\ ~EqualStorage(last.bout, last.nout)
    /\ aborted /\ ~last.ran

\* The per-kind relation between the axes of an input view a and an output
\* view b, as the claim states it.
DimRelation(tk, a, b) ==
    /\ Len(a.n) = Len(b.n)
    /\ \A i \in 1..Len(a.n) :
          IF i = Len(a.n) /\ tk = "R2C" THEN b.n[i] = (a.n[i] \div 2) + 1
          ELSE IF i = Len(a.n) /\ tk = "C2R" THEN a.n[i] = (b.n[i] \div 2) + 1
          ELSE a.n[i] = b.n[i]

ViewsCompatible(tk, a, b) ==
    /\ a.rank = b.rank
    /\ a.howMany = b.howMany
    /\ DimRelation(tk, a, b)

----------------------------------------------------------------------------
(* Properties of layouts, views, kinds and the wisdom helpers *)

\* C11: for a real view a and a complex view b of equal rank r and equal
\* howMany, a.Transformable(b) holds exactly when the last axis of b is
\* a's last axis halved (integer division) plus one and every other axis is
\* equal; and b.Transformable(a) holds exactly when a.Transformable(b) does.
C11_TransformableIffHalfPlusOne ==
    (/\ call.fn = "Transformable" /\ ret.done
     /\ call.real.rank = call.cplx.rank
     /\ call.real.howMany = call.cplx.howMany) =>
        LET a == call.real
            b == call.cplx
            r == a.rank
        IN /\ ret.r2c <=> /\ b.n[r] = (a.n[r] \div 2) + 1
                          /\ \A i \in 1..(r - 1) : b.n[i] = a.n[i]
           /\ ret.c2r <=> ret.r2c

\* Two views of rank 2 with an odd real last axis were found transformable
\* in both directions.
C11_Witness ==
    /\ call.fn = "Transformable" /\ ret.done
    /\ call.real.rank = 2 /\ call.cplx.rank = 2
    /\ call.real.n[2] % 2 = 1 /\ call.real.n[2] > 1
    /\ ret.r2c /\ ret.c2r

\* The product of the entries of s, in unbounded arithmetic.
RECURSIVE Prod(_)
Prod(s) == IF s = <<>> THEN 1 ELSE Head(s) * Prod(Tail(s))

\* Whether the product of the positive integers in s is at most bound.
RECURSIVE ProdLeq(_, _)
ProdLeq(s, bound) ==
    IF s = <<>> THEN 1 <= bound ELSE ProdLeq(Tail(s), bound \div Head(s))

\* Whether v is the exact product of the positive integers in s.
ExactProductIs(s, v) == ProdLeq(s, IntMax) /\ Prod(s) = v

\* howMany followed by the entries of embed.
SizeFactors(lay) == <<lay.howMany>> \o lay.embed

\* C12: a view is constructed only over a buffer whose length is
\* howMany * product(embed); any other buffer is rejected at construction.
C12_ViewSizeChecked ==
    (call.fn = "DataView" /\ ret.done) =>
        LET exact == ExactProductIs(SizeFactors(call.layout), call.len)
        IN /\ ret.built => exact
           /\ ~exact => (aborted /\ ~ret.built)

ValidLayoutArgs(c) ==
    /\ c.rank > 0 /\ c.howMany > 0 /\ c.stride > 0 /\ c.dist > 0
    /\ Len(c.n) = c.rank /\ Len(c.embed) = c.rank
    /\ \A i \in 1..Len(c.n) : c.n[i] > 0
    /\ \A i \in 1..Len(c.embed) : c.embed[i] > 0

\* C13: constructing a layout with a non-positive rank, howMany, stride,
\* dist or entry of n or embed, or with n or embed not of rank entries, is
\* a contract violation: no layout object is produced.
C13_InvalidLayoutRejected ==
    (call.fn = "DataLayout" /\ ret.done /\ ~ValidLayoutArgs(call)) => aborted

\* C14: for positive howMany and embed entries, StorageSize returns the
\* exact product howMany * product(embed).
C14_SizeIsExactProduct ==
    (call.fn = "StorageSize" /\ ret.done) =>
        /\ ~ret.trap
        /\ ExactProductIs(SizeFactors(call.layout), ret.val)

\* The logical dimension of an engine transform code, as the table states it.
TableDimension(code, n) ==
    IF code \in {"R2HC", "HC2R", "DHT"} THEN n
    ELSE IF code = "REDFT00" THEN 2 * (n - 1)
    ELSE IF code = "RODFT00" THEN 2 * (n + 1)
    ELSE 2 * n

\* The logical size of the transform of a Normalisation call.
PlanLogicalSize(c) ==
    IF c.tk = "R2R"
    THEN Prod([i \in 1..Len(c.out.n) |->
                 TableDimension(IF c.fn = "Normalisation"
                                THEN KindCode(c.kinds[i], DirFwd)
                                ELSE c.kinds[i],
                                c.out.n[i])])
    ELSE Prod(c.out.n)

\* C15: Normalisation() returns 1 / logicalSize, the product of the output
\* view's n for C2C, R2C and C2R, and the product over the axes of the
\* kind's logical dimension of n[axis] for R2R.
C15_NormalisationIsInverseLogicalSize ==
    (call.fn \in {"Normalisation", "Testing::Normalisation"} /\ ret.done) =>
        /\ ret.num = 1
        /\ ret.den = PlanLogicalSize(call)

C17_InverseIsInvolution ==
    (call.fn = "Inverse" /\ ret.done) =>
        /\ ret.back = call.kind
        /\ ret.val \in RealKinds

\* The inverse of REDFT10 is another kind, and its inverse is REDFT10 again.
C17_Witness ==
    /\ call.fn = "Inverse" /\ ret.done
    /\ call.kind = "REDFT10" /\ ret.val = "REDFT01" /\ ret.back = "REDFT10"

\* C18: ExportWisdom and ImportWisdom report a failure exactly when the
\* engine reports one, and complete normally when the engine succeeds.
C18_WisdomIoOutcomeSurfaced ==
    (call.fn \in {"ExportWisdom", "ImportWisdom"} /\ ret.done) =>
        (aborted <=> ~ret.engineOk)

\* C19: ForgetWisdom changes no Plan (every built Plan keeps its handle,
\* which stays unreleased and executable) and empties the store, so that a
\* later WisdomOnly build finds no wisdom until some is generated again.
C19_ForgetLeavesPlansAlone ==
    /\ [][last'.op = "ForgetWisdom" =>
            /\ plans' = plans /\ released' = released
            /\ nextHandle' = nextHandle /\ ~aborted'
            /\ wisdom' = {}]_vars
    /\ [](last.op = "ForgetWisdom" =>
            \A p \in PlanIds :
                (plans[p].alive /\ ~IsNull(plans[p])) =>
                    (ExecuteOk(plans[p]) /\ plans[p].plan \notin released))
    /\ [][(wisdom = {} /\ last'.op \in BuildOps /\ last'.flag = "WisdomOnly"
            /\ last'.calls = 1) => last'.engNull]_vars

\* C20: GenerateWisdom with Estimate is a no-op: it makes no engine build
\* call and ends normally whatever the layouts.
C20_EstimateGeneratesNothing ==
    (last.op = "GenerateWisdom" /\ last.flag = "Estimate") =>
        (last.calls = 0 /\ ~aborted)

----------------------------------------------------------------------------
(* Properties C21..C30 *)

\* C21: GenerateWisdom discards every Plan it builds: when it returns, each
\* handle it obtained from the engine has been released (once: no release
\* of a released or null handle is logged), the Plan objects of the caller
\* and their handles are as before, and nothing else but the wisdom store
\* has changed.
C21_GenerateWisdomDiscardsPlans ==
    [][(last'.op = "GenerateWisdom" /\ ~aborted') =>
            /\ plans' = plans
            /\ released' = released \cup ((nextHandle + 1)..nextHandle')
            /\ released \cap ((nextHandle + 1)..nextHandle') = {}
            /\ nullRel' = nullRel /\ dblRel' = dblRel
            /\ tkind' = tkind]_vars

\* GenerateWisdom has returned after building two Plans, with a built
\* Plan of the caller alive.
C21_Witness ==
    /\ last.op = "GenerateWisdom" /\ ~aborted /\ last.calls = 2
    /\ {nextHandle - 1, nextHandle} \subseteq released
    /\ wisdom # {}
    /\ \E p \in PlanIds : plans[p].alive /\ ~IsNull(plans[p])

\* The kinds the claim expects the engine to be handed: the codes of the m
\* supplied kinds followed by copies of the last one, rank entries in all.
FilledKinds(codes, rank) ==
    [i \in 1..rank |-> IF i <= Len(codes) THEN codes[i] ELSE codes[Len(codes)]]

\* The engine codes of the kinds supplied in a constructor call.
SuppliedCodes(c) ==
    IF c.fn = "Plan" THEN [i \in 1..Len(c.kinds) |-> KindCode(c.kinds[i], DirFwd)]
    ELSE c.kinds

\* C22: an R2R Plan of rank r constructed with m kinds, 0 < m <= r, is
\* built, and the engine is handed r kinds: the m supplied followed by
\* r - m copies of the last supplied one.
C22_KindsFilledToRank ==
    (call.fn \in {"Plan", "Testing::Plan"} /\ call.tk = "R2R" /\ ret.done
        /\ Len(call.kinds) > 0 /\ Len(call.kinds) <= call.in.rank) =>
        /\ ret.called /\ ~aborted
        /\ ret.kinds = FilledKinds(SuppliedCodes(call), call.in.rank)

\* C24: Plan1DMany(dimension, howmany, ...) hands the engine stride 1 and
\* dist == dimension for input and output, so that entry i of transform j
\* is at offset i + j * dimension; so does the view MakeDataView1DMany makes.
C24_ManyIsContiguous ==
    /\ (call.fn = "Plan1DMany" /\ ret.done) =>
            /\ ret.args.inStride = 1 /\ ret.args.inDist = call.dimension
            /\ ret.args.outStride = 1 /\ ret.args.outDist = call.dimension
            /\ \A i \in 0..(call.dimension - 1), j \in 0..(call.howmany - 1) :
                  i * ret.args.inStride + j * ret.args.inDist
                      = i + j * call.dimension
    /\ (call.fn = "MakeDataView1DMany" /\ ret.done /\ ret.built) =>
            /\ ret.layout.stride = 1
            /\ ret.layout.dist = ret.layout.n[1]
            /\ ret.layout.dist * call.howMany = call.len

\* C25: for a real/complex pair the axis sizes handed to the engine are the
\* real side's n: the input view's for R2C, the output view's for C2R.
C25_RealSideSizesToEngine ==
    (call.fn \in {"Plan", "Testing::Plan"} /\ call.tk \in {"R2C", "C2R"}
        /\ ret.done /\ ret.called) =>
        ret.n = (IF call.tk = "R2C" THEN call.in.n ELSE call.out.n)

\* C26: a view that passed its size check (the buffer holds exactly
\* howMany * product(embed) elements) with positive stride and dist keeps
\* the engine inside the buffer: for every point j of the embedding block
\* and every transform k < howMany, j * stride + k * dist < length.
C26_OffsetsInsideBuffer ==
    (call.fn = "DataView" /\ ret.done /\ ret.built
        /\ call.layout.stride > 0 /\ call.layout.dist > 0
        /\ ExactProductIs(SizeFactors(call.layout), call.len)) =>
        \A j \in 0..((call.len \div call.layout.howMany) - 1),
           k \in 0..(call.layout.howMany - 1) :
              j * call.layout.stride + k * call.layout.dist < call.len

\* C27: EqualStorage(a, b) holds only if a and b agree on rank, howMany, n,
\* embed, stride and dist; so Execute(newIn, newOut) runs the engine only
\* on views with the stride and dist of the views bound at construction.
C27_EqualStorageCoversStrides ==
    /\ \A a \in AllLayouts, b \in AllLayouts :
            EqualStorage(a, b) => a = b
    /\ (last.op = "ExecuteNew" /\ last.ran) =>
            /\ last.nin.stride = last.bin.stride
            /\ last.nin.dist = last.bin.dist
            /\ last.nout.stride = last.bout.stride
            /\ last.nout.dist = last.bout.dist

\* C28: for the iterator-based Plan, the destruction of a Plan and of its
\* copy releases the engine handle they hold exactly once: release-plan is
\* never called on a handle that was already released.
C28_CopyReleasedOnce ==
    /\ ~dblRel
    /\ (last.op = "IterDestruct" /\ last.dstH # NullHandle) =>
            Owners(last.dstH) = {}

\* C29: ForgetWisdom clears the wisdom of the precision the Plans are built
\* at, whichever of the three it is: no problem of that precision stays in
\* the store, and a WisdomOnly construction that follows gets a null plan
\* from the engine.
C29_ForgetAtEveryPrecision ==
    /\ [][last'.op = "ForgetWisdom" =>
            \A w \in wisdom' : w.prec # precision]_vars
    /\ [][(last.op = "ForgetWisdom" /\ last'.op = "Construct"
            /\ last'.flag = "WisdomOnly" /\ last'.calls = 1) =>
                last'.engNull]_vars

\* C30: the R2R GenerateWisdom with backward set builds its backward Plan,
\* from the output view to the input view, with the inverse of each kind
\* supplied for the forward direction.
C30_BackwardUsesInverseKinds ==
    (call.fn = "GenerateWisdomR2R" /\ ret.done /\ call.backward
        /\ call.flag # "Estimate") =>
        \E i \in 1..Len(ret.plans) :
            /\ ret.plans[i].in = "outView" /\ ret.plans[i].out = "inView"
            /\ ret.plans[i].kinds =
                  [k \in 1..Len(call.kinds) |-> Inverse(call.kinds[k])]

====
